---- MODULE Spec2Model ----
(***************************************************************************)
(* Model of the OpenCode session-metadata plugin (src/src/plugin.ts):      *)
(*   - the "tool.execute.before" hook that prepends an environment block   *)
(*     to bash commands,                                                   *)
(*   - the tools getSessionData / setSessionData (host session API),       *)
(*   - the tools getMetadata / setMetadata (one JSON file per session).    *)
(* Every `await` of a tool is a suspension point and so a separate step of *)
(* the tool invocation; the filesystem and the host are shared state.      *)
(* Text (commands, file contents, tool results) is a sequence of tokens.   *)
(***************************************************************************)
EXTENDS Integers, Sequences, FiniteSets

\* ------------------------------------------------------------------ bounds
\* Total number of tool invocations started in one behaviour.
MaxInvocations == 2
\* Longest command text handed to the hook, in symbols.
MaxCmdLen == 3
\* Number of times the host runs the hook on one invocation.
MaxHookRuns == 2

\* ------------------------------------------------------------ input sets
Sessions == {"s1", "s2"}
Projects == {"p1", "p2"}
Calls == {"c1", "c2"}
Titles == {"old", "new"}
HostErrors == {"e1", "e2"}
HostThrows == {"ECONNREFUSED"}
FsErrors == {"EACCES"}
Directories == {"/w"}
ToolNames == {"bash", "read"}
Platforms == {"linux", "win32"}

F(k, v) == [k |-> k, v |-> v]

\* The field maps callers pass to setMetadata (objects keep insertion order).
CallerMaps ==
  { <<>>,
    << F("a", "v1") >>,
    << F("a", "v2"), F("b", "v1") >>,
    << F("sessionId", "v1"), F("a", "v1") >>,
    << F("storedAt", "v2") >> }

\* ------------------------------------------------------------ JS objects
\* An object is a sequence of fields with distinct keys, in insertion order.
Keys(obj) == { obj[i].k : i \in 1..Len(obj) }

HasKey(obj, k) == \E i \in 1..Len(obj) : obj[i].k = k

Get(obj, k) == obj[CHOOSE i \in 1..Len(obj) : obj[i].k = k].v

\* obj[k] = v: an existing key keeps its position, a new key is appended.
Put(obj, k, v) ==
  IF HasKey(obj, k)
    THEN [i \in 1..Len(obj) |-> IF obj[i].k = k THEN F(k, v) ELSE obj[i]]
    ELSE Append(obj, F(k, v))

\* ------------------------------------------------------------------ JSON
\* JSON.stringify(obj, null, 2) as tokens:  { k : v , k : v }
RECURSIVE Members(_)
Members(obj) ==
  IF Len(obj) = 0 THEN <<>>
  ELSE IF Len(obj) = 1 THEN << obj[1].k, ":", obj[1].v >>
  ELSE << obj[1].k, ":", obj[1].v, "," >> \o Members(Tail(obj))

Stringify(obj) == << "{" >> \o Members(obj) \o << "}" >>

Punctuation == {"{", "}", ":", ","}

IsString(tok) == tok \notin Punctuation

ParseError == [ok |-> FALSE, obj |-> <<>>]

\* Parses  k : v ( , k : v )* }  from position i, collecting fields into acc.
RECURSIVE ParseMembers(_, _, _)
ParseMembers(text, i, acc) ==
  IF i + 3 > Len(text) THEN ParseError
  ELSE IF ~(IsString(text[i]) /\ text[i + 1] = ":" /\ IsString(text[i + 2]))
    THEN ParseError
  ELSE IF text[i + 3] = "}"
    THEN IF i + 3 = Len(text)
           THEN [ok |-> TRUE, obj |-> Put(acc, text[i], text[i + 2])]
           ELSE ParseError
  ELSE IF text[i + 3] = ","
    THEN ParseMembers(text, i + 4, Put(acc, text[i], text[i + 2]))
  ELSE ParseError

\* JSON.parse(text): an object, or a SyntaxError.
Parse(text) ==
  IF Len(text) < 2 \/ text[1] # "{" THEN ParseError
  ELSE IF text[2] = "}"
    THEN IF Len(text) = 2 THEN [ok |-> TRUE, obj |-> <<>>] ELSE ParseError
  ELSE ParseMembers(text, 2, <<>>)


\* ---------------------------------------------------------------- paths
\* getMetadataPath: <storage>/session-metadata/<projectId>/<sessionId>.json
getMetadataPath(projectId, sessionId) == << projectId, sessionId >>

Paths == { getMetadataPath(p, s) : p \in Projects, s \in Sessions }

\* The directory ensureStorageDir creates: <storage>/session-metadata/<projectId>
StorageDir(projectId) == projectId

\* ---------------------------------------------------------------- files
NoFile == [exists |-> FALSE, data |-> <<>>]

File(data) == [exists |-> TRUE, data |-> data]

\* open without O_TRUNC: what the file held stays.
OpenKeepingContent(file) == File(file.data)

\* open(path, 'w'): O_CREAT | O_TRUNC, the first half of fs.writeFile.
OpenForWrite(file) == File(<<>>)

\* write(fd, data) at the descriptor's position 0, the second half of
\* fs.writeFile: bytes beyond the written ones stay as they are.
WriteAtStart(file, data) ==
  IF Len(file.data) > Len(data)
    THEN File(data \o SubSeq(file.data, Len(data) + 1, Len(file.data)))
    ELSE File(data)

\* ---------------------------------------------------------------- clock
Instants == {1, 2}

\* new Date().toISOString()
ToISOString(t) ==
  IF t = 1 THEN "1970-01-01T00:00:00.001Z" ELSE "1970-01-01T00:00:00.002Z"

\* { ...source } written into target: each field of source is put, in order.
RECURSIVE Spread(_, _)
Spread(target, source) ==
  IF Len(source) = 0 THEN target
  ELSE Spread(Put(target, source[1].k, source[1].v), Tail(source))

\* The reserved fields first and the caller's fields spread over them.
FullMetadataCallerLast(metadata, sessionID, now) ==
  Spread(Put(Put(<<>>, "sessionId", sessionID), "storedAt", ToISOString(now)),
         metadata)

\* fullMetadata = { ...metadata, sessionId: ctx.sessionID, storedAt: <now> }
FullMetadata(metadata, sessionID, now) ==
  Put(Put(Spread(<<>>, metadata), "sessionId", sessionID),
      "storedAt", ToISOString(now))

\* ------------------------------------------------------------ the hook
INJECTION_START_MARKER == << "#", "<setup>" >>

INJECTION_END_MARKER == << "#", "</setup>" >>

CmdSymbols == {"#", "<setup>", "x"}

RECURSIVE TextsUpTo(_)
TextsUpTo(n) ==
  IF n = 0 THEN { <<>> }
  ELSE LET shorter == TextsUpTo(n - 1)
       IN  shorter \cup { Append(t, x) : t \in { u \in shorter : Len(u) = n - 1 },
                                          x \in CmdSymbols }

Commands == TextsUpTo(MaxCmdLen)

\* String.prototype.startsWith: pat is the beginning of text.
StartsWith(text, pat) ==
  Len(pat) <= Len(text) /\ SubSeq(text, 1, Len(pat)) = pat

\* String.prototype.includes: pat occurs in text as a contiguous run.
Includes(text, pat) ==
  \E i \in 1..(Len(text) - Len(pat) + 1) :
    SubSeq(text, i, i + Len(pat) - 1) = pat

\* The block of export lines between the two markers.
EnvSetup(sessionID, directory) ==
  INJECTION_START_MARKER
    \o << "\n", "export OPENCODE_SESSION_ID=", sessionID,
          "\n", "export OPENCODE_WORKSPACE_ROOT=", directory,
          "\n", "export OPENCODE_SERVER=http://127.0.0.1:50154", "\n" >>
    \o INJECTION_END_MARKER

\* The hook without its check of the tool name.
HookCommandAnyTool(tool, platform, sessionID, directory, command) ==
  IF platform = "win32" THEN command
  ELSE IF Includes(command, INJECTION_START_MARKER) THEN command
  ELSE EnvSetup(sessionID, directory) \o << "\n" >> \o command

\* "tool.execute.before": the command the hook leaves in output.args.command.
HookCommand(tool, platform, sessionID, directory, command) ==
  IF tool # "bash" THEN command
  ELSE IF platform = "win32" THEN command
  ELSE IF Includes(command, INJECTION_START_MARKER) THEN command
  ELSE EnvSetup(sessionID, directory) \o << "\n" >> \o command


\* ---------------------------------------------------------------- state
VARIABLES
  projectOf,    \* host: the projectID of each session's record
  title,        \* host: the title of each session's record
  fs,           \* the session-metadata tree: path -> file
  dirs,         \* the project directories that exist under session-metadata
  legacy,       \* sessions with a metadata file at .opencode/sessionData/
  calls,        \* the tool invocations in flight or finished, one per slot
  started,      \* number of tool invocations started so far
  lastSet,      \* history: per session, what the last finished write left
  landed,       \* history: per session, the slot whose data was written last
  hookIn,       \* the hook's input: tool name and session id
  hookCmd,      \* the hook's output.args.command
  hookOrig,     \* history: the command before the hook first ran
  hookRuns,     \* number of times the hook ran on this invocation
  platform,     \* process.platform
  directory     \* the plugin's workspace directory

hostVars == << projectOf, title >>
storeVars == << fs, dirs, legacy >>
callVars == << calls, started, lastSet, landed >>
hookVars == << hookIn, hookCmd, hookOrig, hookRuns >>
envVars == << platform, directory >>
vars == << hostVars, storeVars, callVars, hookVars, envVars >>

NoResult == [kind |-> "none", text |-> <<>>, path |-> <<>>, msg |-> ""]

Result(kind, text, path, msg) ==
  [kind |-> kind, text |-> text, path |-> path, msg |-> msg]

NoWrite == [ok |-> FALSE, meta |-> <<>>, full |-> <<>>]

IdleCall ==
  [pc |-> "idle", tool |-> "none", sid |-> "s1", meta |-> <<>>, newTitle |-> "",
   projectId |-> "", full |-> <<>>, seen |-> NoFile, expect |-> NoWrite,
   host |-> "none", io |-> "", result |-> NoResult]

NewCall(tool, pc, sid, meta, newTitle) ==
  [IdleCall EXCEPT !.pc = pc, !.tool = tool, !.sid = sid, !.meta = meta,
                   !.newTitle = newTitle]

\* The invocation has returned (or raised): its locals are gone, what is kept
\* is what it was called with and what came back.
Finished(call, result) == [call EXCEPT !.pc = "done", !.result = result]

\* A finished invocation that failed before it stored anything.
Failed(call, result) ==
  [call EXCEPT !.pc = "done", !.result = result, !.meta = <<>>, !.full = <<>>]

InFlight(c) == calls[c].pc \notin {"idle", "done"}

NoneInFlight == \A c \in Calls : ~InFlight(c)

\* Invocations are interchangeable: a new one takes the first free slot.
SlotOrder == << "c1", "c2" >>

FirstFree(c) ==
  \E i \in 1..Len(SlotOrder) :
    /\ SlotOrder[i] = c
    /\ ~InFlight(c)
    /\ \A j \in 1..(i - 1) : InFlight(SlotOrder[j])

CanStart(c) == FirstFree(c) /\ started < MaxInvocations

\* The session record the host returns: { id, projectID, title }.
SessionRecord(s) ==
  << F("id", s), F("projectID", projectOf[s]), F("title", title[s]) >>

\* ------------------------------------------------- tools: session accessors
StartGetSessionData(c, s) ==
  /\ CanStart(c)
  /\ calls' = [calls EXCEPT ![c] = NewCall("getSessionData", "sget", s, <<>>, "")]
  /\ started' = started + 1
  /\ UNCHANGED << hostVars, storeVars, lastSet, landed, hookVars, envVars >>

\* getSessionData: await client.session.get, with no try/catch around it.
SessionGet(c) ==
  /\ calls[c].pc = "sget"
  /\ \/ calls' = [calls EXCEPT ![c] =
                    Finished([@ EXCEPT !.host = "data"],
                             Result("sessionData",
                                    Stringify(SessionRecord(calls[c].sid)), <<>>, ""))]
     \/ \E e \in HostErrors :
          calls' = [calls EXCEPT ![c] =
                      Finished([@ EXCEPT !.host = e],
                               Result("sessionError", <<>>, <<>>, e))]
     \/ \E x \in HostThrows :
          calls' = [calls EXCEPT ![c] =
                      Finished([@ EXCEPT !.host = x],
                               Result("raised", <<>>, <<>>, x))]
  /\ UNCHANGED << hostVars, storeVars, started, lastSet, landed, hookVars, envVars >>

StartSetSessionData(c, s, t) ==
  /\ CanStart(c)
  /\ calls' = [calls EXCEPT ![c] = NewCall("setSessionData", "supdate", s, <<>>, t)]
  /\ started' = started + 1
  /\ UNCHANGED << hostVars, storeVars, lastSet, landed, hookVars, envVars >>

\* setSessionData: await client.session.update inside try/catch; the response
\* is not looked at.
SessionUpdate(c) ==
  /\ calls[c].pc = "supdate"
  /\ \/ /\ title' = [title EXCEPT ![calls[c].sid] = calls[c].newTitle]
        /\ calls' = [calls EXCEPT ![c] =
                       Finished([@ EXCEPT !.host = "data"],
                                Result("updated", << calls[c].sid, calls[c].newTitle >>,
                                       <<>>, ""))]
     \/ /\ \E e \in HostErrors :
             calls' = [calls EXCEPT ![c] =
                         Finished([@ EXCEPT !.host = e],
                                  Result("updated",
                                         << calls[c].sid, calls[c].newTitle >>, <<>>, ""))]
        /\ UNCHANGED title
     \/ /\ \E x \in HostThrows :
             calls' = [calls EXCEPT ![c] =
                         Finished([@ EXCEPT !.host = x],
                                  Result("updateError", <<>>, <<>>, x))]
        /\ UNCHANGED title
  /\ UNCHANGED << projectOf, storeVars, started, lastSet, landed, hookVars, envVars >>


\* ------------------------------------------------------- tool: getMetadata
StartGetMetadata(c, s) ==
  /\ CanStart(c)
  /\ calls' = [calls EXCEPT ![c] = NewCall("getMetadata", "glookup", s, <<>>, "")]
  /\ started' = started + 1
  /\ UNCHANGED << hostVars, storeVars, lastSet, landed, hookVars, envVars >>

\* await client.session.get; no data ends the call, a throw goes to the catch.
GetLookup(c) ==
  /\ calls[c].pc = "glookup"
  /\ \/ calls' = [calls EXCEPT ![c] =
                    [@ EXCEPT !.pc = "read", !.host = "data",
                              !.projectId = projectOf[calls[c].sid]]]
     \/ calls' = [calls EXCEPT ![c] =
                    Failed([@ EXCEPT !.host = "error"],
                           Result("lookupFailed", <<>>, <<>>, ""))]
     \/ \E x \in HostThrows :
          calls' = [calls EXCEPT ![c] =
                      Failed([@ EXCEPT !.host = x],
                             Result("readError", <<>>, <<>>, x))]
  /\ UNCHANGED << hostVars, storeVars, started, lastSet, landed, hookVars, envVars >>

\* fs.readFile(filePath, "utf-8"): the content, or the error code it rejects
\* with. A missing file is ENOENT; io is the failure of reading a file that
\* exists ("" when the read works).
ReadFile(file, io) ==
  IF ~file.exists THEN [code |-> "ENOENT", content |-> <<>>]
  ELSE IF io # "" THEN [code |-> io, content |-> <<>>]
  ELSE [code |-> "", content |-> file.data]

\* getMetadata without the inner try: a SyntaxError reaches the outer catch,
\* where it has no code.
MetadataReadOneCatch(read, filePath, sessionID) ==
  IF read.code = "ENOENT" THEN Result("notFound", << sessionID >>, <<>>, "")
  ELSE IF read.code # "" THEN Result("readError", <<>>, <<>>, read.code)
  ELSE IF ~Parse(read.content).ok
    THEN Result("readError", <<>>, <<>>, "SyntaxError")
  ELSE Result("document", Stringify(Parse(read.content).obj), <<>>, "")

\* getMetadata after the lookup: JSON.parse in the inner try, ENOENT and the
\* other errors in the outer catch.
MetadataRead(read, filePath, sessionID) ==
  IF read.code = "ENOENT" THEN Result("notFound", << sessionID >>, <<>>, "")
  ELSE IF read.code # "" THEN Result("readError", <<>>, <<>>, read.code)
  ELSE IF ~Parse(read.content).ok
    THEN Result("malformed", <<>>, filePath, "SyntaxError")
  ELSE Result("document", Stringify(Parse(read.content).obj), <<>>, "")

GetRead(c) ==
  /\ calls[c].pc = "read"
  /\ LET filePath == getMetadataPath(calls[c].projectId, calls[c].sid)
     IN  \E io \in {""} \cup FsErrors :
           calls' = [calls EXCEPT ![c] =
                       Finished([@ EXCEPT !.seen = fs[filePath], !.io = io,
                                          !.expect = lastSet[calls[c].sid]],
                                MetadataRead(ReadFile(fs[filePath], io), filePath,
                                             calls[c].sid))]
  /\ UNCHANGED << hostVars, storeVars, started, lastSet, landed, hookVars, envVars >>

\* ------------------------------------------------------- tool: setMetadata
StartSetMetadata(c, s, m) ==
  /\ CanStart(c)
  /\ calls' = [calls EXCEPT ![c] = NewCall("setMetadata", "slookup", s, m, "")]
  /\ started' = started + 1
  /\ UNCHANGED << hostVars, storeVars, lastSet, landed, hookVars, envVars >>

SetLookup(c) ==
  /\ calls[c].pc = "slookup"
  /\ \/ calls' = [calls EXCEPT ![c] =
                    [@ EXCEPT !.pc = "mkdir", !.host = "data",
                              !.projectId = projectOf[calls[c].sid]]]
     \/ calls' = [calls EXCEPT ![c] =
                    Failed([@ EXCEPT !.host = "error"],
                           Result("lookupFailed", <<>>, <<>>, ""))]
     \/ \E x \in HostThrows :
          calls' = [calls EXCEPT ![c] =
                      Failed([@ EXCEPT !.host = x],
                             Result("storeError", <<>>, <<>>, x))]
  /\ UNCHANGED << hostVars, storeVars, started, lastSet, landed, hookVars, envVars >>

\* await ensureStorageDir(projectId); then fullMetadata is built and
\* fs.writeFile is called, which first opens the file.
SetMkdir(c) ==
  /\ calls[c].pc = "mkdir"
  /\ \/ /\ dirs' = dirs \cup { StorageDir(calls[c].projectId) }
        /\ \E now \in Instants :
             calls' = [calls EXCEPT ![c] =
                         [@ EXCEPT !.pc = "open",
                                   !.full = FullMetadata(calls[c].meta, calls[c].sid, now)]]
     \/ /\ \E e \in FsErrors :
             calls' = [calls EXCEPT ![c] =
                         Failed(@, Result("storeError", <<>>, <<>>, e))]
        /\ UNCHANGED dirs
  /\ UNCHANGED << hostVars, fs, legacy, started, lastSet, landed, hookVars, envVars >>

\* fs.writeFile, first half: open the file for writing, which empties it.
SetOpen(c) ==
  /\ calls[c].pc = "open"
  /\ LET filePath == getMetadataPath(calls[c].projectId, calls[c].sid)
     IN  \/ /\ StorageDir(calls[c].projectId) \in dirs
            /\ fs' = [fs EXCEPT ![filePath] = OpenForWrite(@)]
            /\ calls' = [calls EXCEPT ![c] =
                           [@ EXCEPT !.pc = "write", !.expect = lastSet[calls[c].sid]]]
         \/ /\ \E e \in FsErrors :
                 calls' = [calls EXCEPT ![c] =
                             Failed(@, Result("storeError", <<>>, <<>>, e))]
            /\ UNCHANGED fs
  /\ UNCHANGED << hostVars, dirs, legacy, started, lastSet, landed, hookVars, envVars >>

\* fs.writeFile, second half: write the text and close; then the tool returns.
SetWrite(c) ==
  /\ calls[c].pc = "write"
  /\ LET filePath == getMetadataPath(calls[c].projectId, calls[c].sid)
         text == Stringify(calls[c].full)
     IN  \/ /\ fs' = [fs EXCEPT ![filePath] = WriteAtStart(@, text)]
            /\ calls' = [calls EXCEPT ![c] =
                           Finished(@, Result("stored", text, <<>>, ""))]
            /\ lastSet' = [lastSet EXCEPT ![calls[c].sid] =
                             [ok |-> TRUE, meta |-> calls[c].meta, full |-> calls[c].full]]
            /\ landed' = [landed EXCEPT ![calls[c].sid] = c]
         \/ /\ \E e \in FsErrors :
                 calls' = [calls EXCEPT ![c] =
                             Failed(@, Result("storeError", <<>>, <<>>, e))]
            /\ lastSet' = [lastSet EXCEPT ![calls[c].sid] = NoWrite]
            /\ UNCHANGED << fs, landed >>
  /\ UNCHANGED << hostVars, dirs, legacy, started, hookVars, envVars >>

\* ------------------------------------------------------------ hook action
\* The host runs "tool.execute.before" on the invocation (again on a retry).
ToolExecuteBefore ==
  /\ hookRuns < MaxHookRuns
  /\ hookCmd' = HookCommand(hookIn.tool, platform, hookIn.sessionID, directory, hookCmd)
  /\ hookRuns' = hookRuns + 1
  /\ UNCHANGED << hostVars, storeVars, callVars, hookIn, hookOrig, envVars >>

\* ------------------------------------------------------------------ Init
\* What a metadata file may hold before the plugin touches it: nothing, or
\* text that is not JSON.
InitialFiles == { NoFile, File(<< "{", "a", ":" >>) }

\* The two sessions belong to one project or to two.
InitHost ==
  /\ projectOf \in { f \in [Sessions -> Projects] : f["s1"] = "p1" }
  /\ title = [s \in Sessions |-> "old"]

InitStore ==
  /\ \E f \in [Sessions -> InitialFiles] :
       /\ fs = [p \in Paths |->
                  IF p = getMetadataPath(projectOf[p[2]], p[2]) THEN f[p[2]] ELSE NoFile]
       /\ dirs = { StorageDir(projectOf[s]) : s \in { t \in Sessions : f[t].exists } }
  /\ legacy \in SUBSET Sessions

InitCalls ==
  /\ calls = [c \in Calls |-> IdleCall]
  /\ started = 0
  /\ lastSet = [s \in Sessions |-> NoWrite]
  /\ landed = [s \in Sessions |-> "none"]

InitHookIdle ==
  /\ hookIn = [tool |-> "bash", sessionID |-> "s1"]
  /\ hookCmd = <<>>
  /\ hookOrig = <<>>
  /\ hookRuns = 0
  /\ platform = "linux"
  /\ directory = "/w"

InitHook ==
  /\ hookIn \in [tool : ToolNames, sessionID : Sessions]
  /\ hookCmd \in Commands
  /\ hookOrig = hookCmd
  /\ hookRuns = 0
  /\ platform \in Platforms
  /\ directory \in Directories

InitStoreIdle ==
  /\ projectOf = [s \in Sessions |-> "p1"]
  /\ title = [s \in Sessions |-> "old"]
  /\ fs = [p \in Paths |-> NoFile]
  /\ dirs = {}
  /\ legacy = {}

InitEmptyStore ==
  /\ fs = [p \in Paths |-> NoFile]
  /\ dirs = {}
  /\ legacy = {}

Init == InitHost /\ InitEmptyStore /\ InitCalls /\ InitHookIdle

InitSeq == InitHost /\ InitStore /\ InitCalls /\ InitHookIdle

InitSession == InitHost /\ InitEmptyStore /\ InitCalls /\ InitHookIdle

InitHookSpec == InitStoreIdle /\ InitCalls /\ InitHook

\* ------------------------------------------------------------------ Next
MetadataSteps ==
  \E c \in Calls :
    \/ GetLookup(c)
    \/ GetRead(c)
    \/ SetLookup(c)
    \/ SetMkdir(c)
    \/ SetOpen(c)
    \/ SetWrite(c)

\* Tool invocations may overlap: a slot starts whenever it is free.
Next ==
  \/ \E c \in Calls, s \in Sessions : StartGetMetadata(c, s)
  \/ \E c \in Calls, s \in Sessions, m \in CallerMaps : StartSetMetadata(c, s, m)
  \/ MetadataSteps

Spec == Init /\ [][Next]_vars

\* One tool invocation at a time: the next starts when the last has returned.
NextSeq ==
  \/ \E c \in Calls, s \in Sessions : NoneInFlight /\ StartGetMetadata(c, s)
  \/ \E c \in Calls, s \in Sessions, m \in CallerMaps :
       NoneInFlight /\ StartSetMetadata(c, s, m)
  \/ MetadataSteps

SpecSeq == InitSeq /\ [][NextSeq]_vars

NextSession ==
  \/ \E c \in Calls, s \in Sessions, t \in Titles : StartSetSessionData(c, s, t)
  \/ \E c \in Calls, s \in Sessions : StartGetSessionData(c, s)
  \/ \E c \in Calls : SessionUpdate(c) \/ SessionGet(c)

SpecSession == InitSession /\ [][NextSession]_vars

NextHook == ToolExecuteBefore

SpecHook == InitHookSpec /\ [][NextHook]_vars


\* ================================================================ claims
Done(c) == calls[c].pc = "done"

ReservedKeys == {"sessionId", "storedAt"}

Timestamps == { ToISOString(t) : t \in Instants }

SessionPath(s) == getMetadataPath(projectOf[s], s)

\* A getMetadata invocation that returned after its host lookup succeeded.
ReadDone(c) ==
  Done(c) /\ calls[c].tool = "getMetadata" /\ calls[c].host = "data"

\* A setMetadata invocation that returned its confirmation.
Stored(c) ==
  Done(c) /\ calls[c].tool = "setMetadata" /\ calls[c].result.kind = "stored"

\* The places in text where the start marker begins.
MarkerAt(text) ==
  { i \in 1..(Len(text) - 1) : text[i] = "#" /\ text[i + 1] = "<setup>" }

\* ---------------------------------------------------------------- C1
\* C1: a getMetadata that reads a session's file after a successful
\* setMetadata(m) on that session, with no other write in between, returns a
\* document that keeps every caller field of m that is not reserved with its
\* value, whose sessionId is the session's identifier and whose storedAt is
\* the store's timestamp, whatever m said under those two keys.
C1_WriteThenRead ==
  \A c \in Calls :
    (ReadDone(c) /\ calls[c].expect.ok /\ calls[c].io = "") =>
      LET m == calls[c].expect.meta
          doc == Parse(calls[c].result.text)
      IN  /\ calls[c].result.kind = "document"
          /\ doc.ok
          /\ \A k \in Keys(m) \ ReservedKeys :
               HasKey(doc.obj, k) /\ Get(doc.obj, k) = Get(m, k)
          /\ HasKey(doc.obj, "sessionId")
          /\ Get(doc.obj, "sessionId") = calls[c].sid
          /\ HasKey(doc.obj, "storedAt")
          /\ Get(doc.obj, "storedAt") \in Timestamps

\* A read after a write whose caller map named a reserved key and another one.
C1_Witness ==
  \E c \in Calls :
    /\ ReadDone(c) /\ calls[c].expect.ok /\ calls[c].io = ""
    /\ HasKey(calls[c].expect.meta, "sessionId")
    /\ HasKey(calls[c].expect.meta, "a")
    /\ calls[c].result.kind = "document"

\* ---------------------------------------------------------------- C2
\* C2: when no invocation is in flight and the last write to a session
\* succeeded, the session's file is exactly the serialized merged document of
\* that write, its keys are that call's keys plus the reserved ones, and a
\* getMetadata that read it returned those keys and no others.
C2_LastWriteReplaces ==
  /\ \A s \in Sessions :
       (NoneInFlight /\ lastSet[s].ok) =>
         /\ fs[SessionPath(s)] = File(Stringify(lastSet[s].full))
         /\ Parse(fs[SessionPath(s)].data).ok
         /\ Keys(Parse(fs[SessionPath(s)].data).obj)
              = Keys(lastSet[s].meta) \cup ReservedKeys
  /\ \A c \in Calls :
       (ReadDone(c) /\ calls[c].expect.ok /\ calls[c].result.kind = "document") =>
         Keys(Parse(calls[c].result.text).obj)
           = Keys(calls[c].expect.meta) \cup ReservedKeys

\* A second successful write whose document lacks a key the first one had.
C2_Witness ==
  \E c \in Calls :
    /\ NoneInFlight
    /\ Stored(c)
    /\ calls[c].expect.ok
    /\ Keys(calls[c].expect.full) \ Keys(calls[c].full) # {}
    /\ lastSet[calls[c].sid].full = calls[c].full

C4_InjectOnce ==
  (hookRuns >= 1 /\ hookIn.tool = "bash" /\ platform # "win32") =>
    IF MarkerAt(hookOrig) # {}
      THEN hookCmd = hookOrig
      ELSE /\ hookCmd = EnvSetup(hookIn.sessionID, directory) \o << "\n" >> \o hookOrig
           /\ MarkerAt(hookCmd) = {1}

\* The hook ran twice on a bash command that had no marker.
C4_Witness ==
  /\ hookRuns = 2
  /\ hookIn.tool = "bash"
  /\ platform # "win32"
  /\ MarkerAt(hookOrig) = {}
  /\ Len(hookOrig) > 0
  /\ hookCmd # hookOrig

\* The hook ran on a bash command that held the marker, but not at its start.
C4_WitnessMarked ==
  /\ hookRuns >= 1
  /\ hookIn.tool = "bash"
  /\ platform # "win32"
  /\ MarkerAt(hookOrig) # {}
  /\ 1 \notin MarkerAt(hookOrig)

\* ---------------------------------------------------------------- C5
\* C5: for a tool other than bash, and on win32 for any tool, the command is
\* what it was before the hook ran.
C5_NotBashOrWindows ==
  (hookIn.tool # "bash" \/ platform = "win32") => hookCmd = hookOrig

\* The hook ran on another tool's command that had no marker, off win32.
C5_Witness ==
  /\ hookRuns >= 1
  /\ hookIn.tool # "bash"
  /\ platform # "win32"
  /\ MarkerAt(hookOrig) = {}

\* The hook ran on a bash command that had no marker, on win32.
C5_WitnessWindows ==
  /\ hookRuns >= 1
  /\ hookIn.tool = "bash"
  /\ platform = "win32"
  /\ MarkerAt(hookOrig) = {}


\* ---------------------------------------------------------------- C6
\* C6: every tool invocation that has ended returned a string; none ended by
\* raising to the host.
C6_NeverRaises ==
  \A c \in Calls : Done(c) => calls[c].result.kind # "raised"

\* ---------------------------------------------------------------- C7
\* C7: when the host's session get or update did not succeed, the accessor
\* returned an error message that carries the host's payload, and
\* setSessionData returned its confirmation only when the host accepted the
\* update.
C7_HostErrorReported ==
  \A c \in Calls :
    (Done(c) /\ calls[c].tool \in {"getSessionData", "setSessionData"}) =>
      /\ calls[c].host # "data" =>
           /\ calls[c].result.kind \in {"sessionError", "updateError"}
           /\ calls[c].result.msg = calls[c].host
      /\ calls[c].result.kind = "updated" => calls[c].host = "data"

\* ---------------------------------------------------------------- C8
\* C8: once two setMetadata invocations for one session have both returned
\* their confirmation and nothing is in flight, the session's file is exactly
\* the serialized document of the one whose data was written last.
C8_LastWriteWins ==
  \A c \in Calls, d \in Calls :
    (c # d /\ Stored(c) /\ Stored(d) /\ calls[c].sid = calls[d].sid /\ NoneInFlight) =>
      /\ landed[calls[c].sid] \in {c, d}
      /\ fs[SessionPath(calls[c].sid)]
           = File(Stringify(calls[landed[calls[c].sid]].full))

\* ---------------------------------------------------------------- C9
\* C9: a getMetadata that found no file at the primary location of a session
\* that has metadata at the legacy location returned a document, not the
\* not-found message.
C9_LegacyFallback ==
  \A c \in Calls :
    (ReadDone(c) /\ ~calls[c].seen.exists /\ calls[c].sid \in legacy) =>
      calls[c].result.kind = "document"

\* ---------------------------------------------------------------- C10
\* C10: with only documents written by setMetadata ever in the store, a
\* getMetadata whose read worked returned not-found or a document that some
\* setMetadata wrote in full, and never the malformed outcome.
C10_ReadsWholeDocuments ==
  \A c \in Calls :
    (ReadDone(c) /\ calls[c].io = "") =>
      /\ calls[c].result.kind \in {"notFound", "document"}
      /\ calls[c].result.kind = "document" =>
           \E m \in CallerMaps, t \in Instants :
             calls[c].result.text = Stringify(FullMetadata(m, calls[c].sid, t))

====
